---- MODULE Spec2Model ----
(***************************************************************************)
(* The Notifier helper of coc-explorer: composable bundles of deferred     *)
(* host-affecting callbacks, flushed inside one pauseNotification /        *)
(* resumeNotification window of the host connection.                       *)
(*                                                                         *)
(* Notifier instances live on a heap (notifyFns); callbacks are opaque     *)
(* integers: fresh closure k of the k-th create() call, its negation when  *)
(* that closure throws, Noop for the `() => {}` literal of combine.        *)
(* An async runAll invocation is a task: it suspends at `await             *)
(* Promise.all`, and its continuation (pause; notifyAll; resume) runs to   *)
(* completion in one step of the single cooperative context.               *)
(*                                                                         *)
(* The context runs one synchronous job at a time: a call of the API or a  *)
(* continuation. `last` holds the job on the stack with its arguments, its *)
(* result, the heap it started from and the events it produced, until it   *)
(* returns; the next job starts from an empty stack.                       *)
(***************************************************************************)
EXTENDS Integers, Sequences, FiniteSets, TLC

\* ------------------------------------------------------------- bounds
\* The synchronous API (SpecSync): instances, callbacks appended by concat over
\* all instances, list length, no-op instances.
MaxNotifiers == 3
MaxAppended == 3
MaxList == 3
MaxNoops == 2
\* The batched dispatch (SpecRun): instances, callbacks appended by concat,
\* cells per runAll call, runAll invocations.
MaxRunNotifiers == 2
MaxRunAppended == 2
MaxCells == 2
MaxTasks == 1
\* Closures that throw when invoked, per behaviour.
MaxThrowing == 1
\* Concurrent dispatch: invocations in flight, cells per invocation, instances.
MaxConcurrent == 2
MaxConcurrentCells == 2
MaxConcurrentNotifiers == 2
\* gen_doc: lines of the markdown file, rows, runs of the script.
MaxReadmeLines == 3
MaxRows == 1
MaxGenDocRuns == 2

\* ------------------------------------------------------------- values
\* The absent markers of NotifierCell; Notifier instances are 1, 2, ...
Null == 0
Undefined == -1
\* The empty callback `() => {}` that combine creates.
Noop == 0

VARIABLES
    notifyFns,   \* heap: Notifier instance -> its notifyFns array, in construction order
    tasks,       \* the runAll invocations started so far, in start order
    hostCalls,   \* what the host connection received: pause/resume, by invocation
    last,        \* the job on the stack: name, arguments, result, effects, heap before
    readme       \* gen_doc: the markdown file, the rows given to attach, the writes made

vars == <<notifyFns, tasks, hostCalls, last, readme>>

Notifiers == 1..Len(notifyFns)
CellValues == {Null, Undefined} \cup Notifiers

\* JavaScript truthiness of a NotifierCell: an object is truthy, null and
\* undefined are falsy.
Truthy(c) == c # Null /\ c # Undefined

\* A callback throws iff it is one of the throwing closures.
Throws(f) == f < 0

SeqsUpTo(S, n) == UNION {[1..k -> S] : k \in 0..n}

\* ------------------------------------------------------------- execution
\* The effects of one synchronous run of code: the events it produced (host
\* calls and callback invocations, in order) and whether an exception is
\* propagating.
NoEffects == [events |-> <<>>, threw |-> FALSE]

CallEvent(f, slot) == [ev |-> "call", fn |-> f, slot |-> slot]
HostEvent(name) == [ev |-> name, fn |-> Noop, slot |-> 0]

\* fn(): the callback runs; a throwing one raises.
Invoke(f, slot, x) ==
    [events |-> Append(x.events, CallEvent(f, slot)), threw |-> Throws(f)]

\* notify(): for (const fn of this.notifyFns) fn();
RECURSIVE NotifyLoop(_, _, _, _)
NotifyLoop(fns, i, slot, x) ==
    IF x.threw \/ i > Len(fns) THEN x
    ELSE NotifyLoop(fns, i + 1, slot, Invoke(fns[i], slot, x))

\* A notify that walks the callbacks twice.
notifyTwice(heap, n, slot, x) == NotifyLoop(heap[n] \o heap[n], 1, slot, x)

notify(heap, n, slot, x) == NotifyLoop(heap[n], 1, slot, x)

\* notifyAll(): for (const n of lazyNotifies) if (n) n.notify();
RECURSIVE NotifyAllLoop(_, _, _, _)
NotifyAllLoop(heap, cells, i, x) ==
    IF x.threw \/ i > Len(cells) THEN x
    ELSE NotifyAllLoop(heap, cells, i + 1,
                       IF Truthy(cells[i]) THEN notify(heap, cells[i], i, x) ELSE x)

\* A notifyAll that returns at the first absent cell instead of skipping it.
RECURSIVE StopAtAbsentLoop(_, _, _, _)
StopAtAbsentLoop(heap, cells, i, x) ==
    IF x.threw \/ i > Len(cells) \/ ~Truthy(cells[i]) THEN x
    ELSE StopAtAbsentLoop(heap, cells, i + 1, notify(heap, cells[i], i, x))

notifyAllStopAtAbsent(heap, cells, x) == StopAtAbsentLoop(heap, cells, 1, x)

notifyAll(heap, cells, x) == NotifyAllLoop(heap, cells, 1, x)

\* workspace.nvim.pauseNotification() / resumeNotification(): a statement
\* reached while an exception propagates is not executed.
pauseNotification(x) ==
    IF x.threw THEN x ELSE [x EXCEPT !.events = Append(@, HostEvent("pause"))]
resumeNotification(x) ==
    IF x.threw THEN x ELSE [x EXCEPT !.events = Append(@, HostEvent("resume"))]

\* A runAll that opens one window per Notifier instead of one per call.
RECURSIVE WindowPerNotifierLoop(_, _, _, _)
WindowPerNotifierLoop(heap, cells, i, x) ==
    IF x.threw \/ i > Len(cells) THEN x
    ELSE WindowPerNotifierLoop(heap, cells, i + 1,
             IF Truthy(cells[i])
             THEN resumeNotification(notify(heap, cells[i], i, pauseNotification(x)))
             ELSE x)

RunAllBodyWindowPerNotifier(heap, notifiers) ==
    WindowPerNotifierLoop(heap, notifiers, 1, NoEffects)

\* A runAll that returns early when no resolved cell holds a Notifier.
RunAllBodySkipsEmptyBatch(heap, notifiers) ==
    IF \A i \in 1..Len(notifiers) : ~Truthy(notifiers[i]) THEN NoEffects
    ELSE resumeNotification(notifyAll(heap, notifiers, pauseNotification(NoEffects)))

\* A runAll that returns without resuming when it had nothing to notify.
RunAllBodyNoResumeWhenIdle(heap, notifiers) ==
    IF \A i \in 1..Len(notifiers) : ~Truthy(notifiers[i])
    THEN pauseNotification(NoEffects)
    ELSE resumeNotification(notifyAll(heap, notifiers, pauseNotification(NoEffects)))

\* The body of runAll after `await Promise.all`: lines 31-33.
RunAllBody(heap, notifiers) ==
    resumeNotification(notifyAll(heap, notifiers, pauseNotification(NoEffects)))

\* ------------------------------------------------------------- heap operations
\* Each operation yields the heap after it, the value it returns and the
\* effects (callback invocations, host calls) of running it.

\* A constructor that triggers the callback it is given.
createInvokesCallback(heap, fn) ==
    [heap |-> Append(heap, <<fn>>), ret |-> Len(heap) + 1,
     x |-> Invoke(fn, 0, NoEffects)]

\* new Notifier(notify): a fresh instance whose notifyFns is [notify].
create(heap, fn) ==
    [heap |-> Append(heap, <<fn>>), ret |-> Len(heap) + 1, x |-> NoEffects]

\* A concat that puts the operand's callbacks first (unshift for push).
concatPrepend(heap, this, notifier) ==
    [heap |-> [heap EXCEPT ![this] = heap[notifier] \o heap[this]], ret |-> this,
     x |-> NoEffects]

\* A concat that overwrites what earlier concats appended: splice(1, Infinity,
\* ...) for push(...).
concatReplaces(heap, this, notifier) ==
    [heap |-> [heap EXCEPT ![this] = <<heap[this][1]>> \o heap[notifier]], ret |-> this,
     x |-> NoEffects]

\* A concat that pushes only the callback the operand was constructed with.
concatFirstOnly(heap, this, notifier) ==
    [heap |-> [heap EXCEPT ![this] = Append(heap[this], heap[notifier][1])], ret |-> this,
     x |-> NoEffects]

\* A concat that returns its operand (return notifier for return this).
concatReturnsOperand(heap, this, notifier) ==
    [heap |-> [heap EXCEPT ![this] = heap[this] \o heap[notifier]], ret |-> notifier,
     x |-> NoEffects]

\* this.notifyFns.push(...notifier.notifyFns); return this;
concat(heap, this, notifier) ==
    [heap |-> [heap EXCEPT ![this] = heap[this] \o heap[notifier]], ret |-> this,
     x |-> NoEffects]

\* lodash compact(): the truthy entries, in order.
compact(cells) == SelectSeq(cells, Truthy)

\* safeNotifiers.slice(1).reduce((ret, cur) => ret.concat(cur), safeNotifiers[0])
RECURSIVE Reduce(_, _, _, _)
Reduce(heap, safe, i, ret) ==
    IF i > Len(safe) THEN [heap |-> heap, ret |-> ret, x |-> NoEffects]
    ELSE LET r == concat(heap, ret, safe[i]) IN Reduce(r.heap, safe, i + 1, r.ret)

\* A combine that answers null for a list without any Notifier.
combineNullWhenEmpty(heap, cells) ==
    LET safeNotifiers == compact(cells) IN
    IF Len(safeNotifiers) < 1 THEN [heap |-> heap, ret |-> Null, x |-> NoEffects]
    ELSE IF Len(safeNotifiers) = 1
         THEN [heap |-> heap, ret |-> safeNotifiers[1], x |-> NoEffects]
         ELSE Reduce(heap, safeNotifiers, 2, safeNotifiers[1])

\* A combine that tests the length of its argument instead of the compacted
\* list: absent entries are counted.
combineCountsAbsent(heap, cells) ==
    LET safeNotifiers == compact(cells) IN
    IF Len(cells) < 1 \/ Len(safeNotifiers) < 1 THEN create(heap, Noop)
    ELSE IF Len(cells) = 1
         THEN [heap |-> heap, ret |-> safeNotifiers[1], x |-> NoEffects]
         ELSE Reduce(heap, safeNotifiers, 1, safeNotifiers[1])

\* A combine without the single-entry shortcut: it always folds the entries
\* into a fresh no-op Notifier.
combineAlwaysWraps(heap, cells) ==
    LET fresh == create(heap, Noop) IN
    Reduce(fresh.heap, compact(cells), 1, fresh.ret)

combine(heap, cells) ==
    LET safeNotifiers == compact(cells) IN
    IF Len(safeNotifiers) < 1 THEN create(heap, Noop)
    ELSE IF Len(safeNotifiers) = 1
         THEN [heap |-> heap, ret |-> safeNotifiers[1], x |-> NoEffects]
         ELSE Reduce(heap, safeNotifiers, 2, safeNotifiers[1])

\* ------------------------------------------------------------- promises
\* A cell handed to runAll: a plain NotifierCell, or a promise of one that is
\* pending, fulfilled with a NotifierCell, or rejected.
PlainCell(v) == [deferred |-> FALSE, state |-> "fulfilled", val |-> v]
PendingCell == [deferred |-> TRUE, state |-> "pending", val |-> Null]

\* Promise.all: fulfils once every element is fulfilled, with the values in
\* input order; rejects as soon as one element is rejected.
\* A Promise.allSettled in place of Promise.all: a rejection does not stop it.
AllSettled(cells) == \A i \in 1..Len(cells) : cells[i].state # "pending"

\* A Promise.race in place of Promise.all: the first fulfilment ends the wait.
AnyFulfilled(cells) == \E i \in 1..Len(cells) : cells[i].state = "fulfilled"

AllFulfilled(cells) == \A i \in 1..Len(cells) : cells[i].state = "fulfilled"
AnyRejected(cells) == \E i \in 1..Len(cells) : cells[i].state = "rejected"
\* Results collected as the promises settle instead of by input position.
ValuesInSettleOrder(task) ==
    [k \in 1..Len(task.order) |-> task.cells[task.order[k]].val]

PromiseAllValues(task) == [i \in 1..Len(task.cells) |-> task.cells[i].val]

\* ------------------------------------------------------------- gen_doc
\* src/scripts/gen_doc.ts. A line of text is a sequence of tokens: "#", " "
\* (whitespace) or a word that holds neither. A string is a sequence of lines:
\* what stands between its newline characters; '' is one empty line.
Str(line) == <<line>>

\* a + b on strings: the last line of a runs on into the first line of b.
StrCat(a, b) ==
    SubSeq(a, 1, Len(a) - 1) \o <<a[Len(a)] \o b[1]>> \o SubSeq(b, 2, Len(b))

\* markdown.split('\n'): one string per line of the file.
split(markdown) == [k \in 1..Len(markdown) |-> Str(markdown[k])]

\* lines.join('\n'): the lines of the elements, in order.
RECURSIVE join(_)
join(strings) == IF strings = <<>> THEN <<>> ELSE Head(strings) \o join(Tail(strings))

hint == <<"<!-- Generated by 'yarn run gen:doc', please don't edit it directly -->">>
ignorePrettier == <<"<!-- prettier-ignore -->">>

\* '#'.repeat(n) stands at position i of line.
HashesAt(line, i, n) ==
    /\ i + n - 1 <= Len(line)
    /\ \A k \in i..(i + n - 1) : line[k] = "#"

\* new RegExp('#'.repeat(headLevel) + '\\s*' + attachTitle + '\\s*').test(line),
\* for a string of one line: not anchored, so the match may start anywhere.
TitleRegExp(headLevel, attachTitle, string) ==
    LET line == string[1] IN
    \E i \in 1..Len(line) :
        /\ HashesAt(line, i, headLevel)
        /\ \E j \in (i + headLevel)..Len(line) :
               /\ line[j] = attachTitle
               /\ \A k \in (i + headLevel)..(j - 1) : line[k] = " "

\* new RegExp('#'.repeat(headLevel) + '[^#]').test(line)
NextHeadRegExp(headLevel, string) ==
    LET line == string[1] IN
    \E i \in 1..Len(line) :
        /\ HashesAt(line, i, headLevel)
        /\ i + headLevel <= Len(line)
        /\ line[i + headLevel] # "#"

\* Array.prototype.findIndex, 0-based, -1 when no element passes; passes[k]
\* tells whether the callback accepts the k-th element.
findIndex(passes) ==
    IF \E k \in 1..Len(passes) : passes[k]
    THEN (CHOOSE k \in 1..Len(passes) : passes[k] /\ \A j \in 1..(k - 1) : ~passes[j]) - 1
    ELSE 0 - 1

\* array.slice(start)
slice(array, start) == SubSeq(array, start + 1, Len(array))

\* array.splice(start, deleteCount, ...items): the array afterwards.
splice(array, start, deleteCount, items) ==
    SubSeq(array, 1, start) \o items \o SubSeq(array, start + deleteCount + 1, Len(array))

\* JSON.stringify(obj, undefined, '  ') of a row's default: a scalar prints on
\* one line, an object on one line per property between its braces.
printJson(obj) ==
    IF obj = "scalar" THEN Str(<<"true">>)
    ELSE <<<<"{">>, <<" ", " ", "\"a\":", " ", "1">>, <<"}">>>>

RECURSIVE DetailsOf(_, _)
DetailsOf(rows, i) ==
    IF i > Len(rows) THEN <<>>
    ELSE LET row == rows[i]
             line == IF row.default # "undefined"
                     THEN StrCat(StrCat(Str(<<"Default: ">>),
                                        StrCat(Str(<<"<pre><code>">>), printJson(row.default))),
                                 Str(<<"</code></pre>">>))
                     ELSE Str(<<>>)
         IN  <<Str(<<"<details>">>),
               Str(<<"<summary><code>">> \o row.key \o <<"</code>: ">> \o row.description
                       \o <<". type: <code>">> \o row.type \o <<"</code></summary>">>),
               line,
               Str(<<"</details>">>)>> \o DetailsOf(rows, i + 1)

\* printAsDetails(rows): lines 55-72.
printAsDetails(rows) ==
    <<Str(<<>>), Str(hint), Str(ignorePrettier)>> \o DetailsOf(rows, 1) \o <<Str(<<>>)>>

\* attach(headLevel, attachTitle, markdownPath, rows) on a file holding
\* markdown: the file afterwards and whether writeFile was called.
attach(headLevel, attachTitle, markdown, rows) ==
    LET markdownLines == split(markdown)
        found == findIndex([k \in 1..Len(markdownLines) |->
                               TitleRegExp(headLevel, attachTitle, markdownLines[k])])
        startIndex == found + 1
        rest == slice(markdownLines, startIndex)
        endIndex == findIndex([k \in 1..Len(rest) |-> NextHeadRegExp(headLevel, rest[k])])
        removeCount == IF endIndex < 0 THEN 0 ELSE endIndex
        lines == printAsDetails(rows)
    IN  IF found < 0 THEN [markdown |-> markdown, written |-> FALSE]
        ELSE [markdown |-> join(splice(markdownLines, startIndex, removeCount, lines)),
              written |-> TRUE]

\* main(): attach(2, 'Configuration', 'readme.md', genConfigurationDoc())
HeadLevel == 2
AttachTitle == "Configuration"

\* Lines a readme is made of: the target heading, another heading of the same
\* level, a deeper heading, a top-level heading, text, an empty line.
ReadmeLines ==
    {<<"#", "#", " ", AttachTitle>>, <<"#", "#", " ", "Commands">>,
     <<"#", "#", "#", " ", "Notes">>, <<"#", " ", "coc-explorer">>,
     <<"text">>, <<>>}

\* Rows as genConfigurationDoc builds them: without a default, with a scalar
\* default, with an object default.
Rows ==
    {[key |-> <<"explorer.width">>, description |-> <<"Width">>, type |-> <<"number">>,
      default |-> d] : d \in {"undefined", "scalar", "object"}}

\* A file always holds at least one line (the empty file is one empty line).
Readmes == UNION {[1..k -> ReadmeLines] : k \in 1..MaxReadmeLines}

\* No gen_doc run is part of the behaviour.
NoReadme == [markdown |-> <<>>, rows |-> <<>>, runs |-> 0, writes |-> 0, previous |-> <<>>]

\* ------------------------------------------------------------- bookkeeping
Op(name, args, ret, x) ==
    [op |-> name, args |-> args, ret |-> ret, events |-> x.events, threw |-> x.threw,
     pre |-> notifyFns]

Idle ==
    [op |-> "idle", args |-> <<>>, ret |-> Null, events |-> <<>>, threw |-> FALSE,
     pre |-> <<>>]

\* The callbacks concat appended so far, over instances 1..n.
RECURSIVE Appended(_, _)
Appended(heap, n) == IF n = 0 THEN 0 ELSE Len(heap[n]) - 1 + Appended(heap, n - 1)

FitsBound(heap, maxN, maxAppended) ==
    /\ Len(heap) <= maxN
    /\ Appended(heap, Len(heap)) <= maxAppended
    /\ Cardinality({n \in 1..Len(heap) : heap[n][1] = Noop}) <= MaxNoops

\* Every instance keeps the callback it was constructed with at index 1.
ThrowingCreated == Cardinality({n \in Notifiers : Throws(notifyFns[n][1])})

Init ==
    /\ notifyFns = <<>>
    /\ tasks = <<>>
    /\ hostCalls = <<>>
    /\ last = Idle
    /\ readme = NoReadme

\* Notifier.create(fn): fn is the fresh closure of this call site, which
\* may be one that throws when invoked.
CreateUpTo(maxN) ==
    \E throwing \in BOOLEAN :
        LET fn == IF throwing THEN 0 - (Len(notifyFns) + 1) ELSE Len(notifyFns) + 1
            r == create(notifyFns, fn)
        IN  /\ last = Idle
            /\ Len(notifyFns) < maxN
            /\ throwing => ThrowingCreated < MaxThrowing
            /\ notifyFns' = r.heap
            /\ last' = Op("create", <<fn>>, r.ret, r.x)
            /\ UNCHANGED <<tasks, hostCalls, readme>>

\* a.concat(b), for any two instances (a = b included).
ConcatUpTo(maxN, maxAppended) ==
    \E a \in Notifiers, b \in Notifiers :
        LET r == concat(notifyFns, a, b) IN
        /\ last = Idle
        /\ FitsBound(r.heap, maxN, maxAppended)
        /\ notifyFns' = r.heap
        /\ last' = Op("concat", <<a, b>>, r.ret, r.x)
        /\ UNCHANGED <<tasks, hostCalls, readme>>

Create == CreateUpTo(MaxNotifiers)
Concat == ConcatUpTo(MaxNotifiers, MaxAppended)

\* Notifier.combine(cells)
Combine ==
    \E cells \in SeqsUpTo(CellValues, MaxList) :
        LET r == combine(notifyFns, cells) IN
        /\ last = Idle
        /\ FitsBound(r.heap, MaxNotifiers, MaxAppended)
        /\ notifyFns' = r.heap
        /\ last' = Op("combine", cells, r.ret, r.x)
        /\ UNCHANGED <<tasks, hostCalls, readme>>

\* n.notify(), called directly (no batching window).
Notify ==
    \E n \in Notifiers :
        /\ last = Idle
        /\ last' = Op("notify", <<n>>, Null, notify(notifyFns, n, 0, NoEffects))
        /\ UNCHANGED <<notifyFns, tasks, hostCalls, readme>>

\* Notifier.combine(cells).notify(): the result of the combine call on the
\* stack is triggered at once.
CombineNotify ==
    /\ last.op = "combine"
    /\ last' = [last EXCEPT !.op = "combine.notify",
                            !.events = notify(notifyFns, last.ret, 0, NoEffects).events,
                            !.threw = notify(notifyFns, last.ret, 0, NoEffects).threw]
    /\ UNCHANGED <<notifyFns, tasks, hostCalls, readme>>

\* The second concat of a chained expression, the first one's result being on
\* the stack: (a.concat(b)).concat(n) when onResult, n.concat(a.concat(b))
\* otherwise. args lists the three operands as written, left to right.
ConcatChain ==
    \E n \in Notifiers, onResult \in BOOLEAN :
        LET r == IF onResult THEN concat(notifyFns, last.ret, n)
                 ELSE concat(notifyFns, n, last.ret)
        IN  /\ last.op = "concat"
            /\ FitsBound(r.heap, MaxNotifiers, MaxAppended)
            /\ notifyFns' = r.heap
            /\ last' = [last EXCEPT !.op = IF onResult THEN "(concat).concat"
                                                       ELSE "concat(concat)",
                                    !.args = IF onResult THEN Append(last.args, n)
                                                         ELSE <<n>> \o last.args,
                                    !.ret = r.ret]
            /\ UNCHANGED <<tasks, hostCalls, readme>>

\* The result of the chained expression on the stack is triggered.
ConcatNotify ==
    /\ last.op \in {"(concat).concat", "concat(concat)"}
    /\ last' = [last EXCEPT !.op = last.op \o ".notify",
                            !.events = notify(notifyFns, last.ret, 0, NoEffects).events,
                            !.threw = notify(notifyFns, last.ret, 0, NoEffects).threw]
    /\ UNCHANGED <<notifyFns, tasks, hostCalls, readme>>

\* The job on the stack returns: the context is free for the next job.
Return ==
    /\ last # Idle
    /\ last' = Idle
    /\ UNCHANGED <<notifyFns, tasks, hostCalls, readme>>

\* Notifier.notifyAll(cells), called directly.
NotifyAll ==
    \E cells \in SeqsUpTo(CellValues, MaxCells) :
        /\ last = Idle
        /\ last' = Op("notifyAll", cells, Null, notifyAll(notifyFns, cells, NoEffects))
        /\ UNCHANGED <<notifyFns, tasks, hostCalls, readme>>

\* ------------------------------------------------------------- runAll
CreateR == CreateUpTo(MaxRunNotifiers)
ConcatR == ConcatUpTo(MaxRunNotifiers, MaxRunAppended)

\* order: the cells in the order they settled; plain values count as settled
\* from the start, in input order.
NewTask(cells, via) ==
    [via |-> via, cells |-> cells, pc |-> "await", events |-> <<>>,
     order |-> SelectSeq([i \in 1..Len(cells) |-> i], LAMBDA i : ~cells[i].deferred)]

InputCells == {PlainCell(v) : v \in CellValues} \cup {PendingCell}

\* Notifier.runAll(cells): line 30 starts Promise.all and suspends.
RunAll ==
    \E cells \in SeqsUpTo(InputCells, MaxCells) :
        /\ last = Idle
        /\ Len(tasks) < MaxTasks
        /\ tasks' = Append(tasks, NewTask(cells, "runAll"))
        /\ last' = Op("runAll", <<>>, Len(tasks) + 1, NoEffects)
        /\ UNCHANGED <<notifyFns, hostCalls, readme>>

\* n.run(): return Notifier.runAll([this])
Run ==
    \E n \in Notifiers :
        /\ last = Idle
        /\ Len(tasks) < MaxTasks
        /\ tasks' = Append(tasks, NewTask(<<PlainCell(n)>>, "run"))
        /\ last' = Op("run", <<n>>, Len(tasks) + 1, NoEffects)
        /\ UNCHANGED <<notifyFns, hostCalls, readme>>

\* A deferred cell's promise fulfils with a NotifierCell.
Fulfil ==
    \E t \in 1..Len(tasks) : \E i \in 1..Len(tasks[t].cells) : \E v \in CellValues :
        /\ last = Idle
        /\ tasks[t].cells[i].state = "pending"
        /\ tasks' = [tasks EXCEPT ![t].cells[i].state = "fulfilled",
                                  ![t].cells[i].val = v,
                                  ![t].order = Append(@, i)]
        /\ last' = Op("fulfil", <<t, i>>, Null, NoEffects)
        /\ UNCHANGED <<notifyFns, hostCalls, readme>>

\* A deferred cell's promise rejects.
Reject ==
    \E t \in 1..Len(tasks) : \E i \in 1..Len(tasks[t].cells) :
        /\ last = Idle
        /\ tasks[t].cells[i].state = "pending"
        /\ tasks' = [tasks EXCEPT ![t].cells[i].state = "rejected",
                                  ![t].order = Append(@, i)]
        /\ last' = Op("reject", <<t, i>>, Null, NoEffects)
        /\ UNCHANGED <<notifyFns, hostCalls, readme>>

HostCallsOf(t, events) ==
    LET host == SelectSeq(events, LAMBDA e : e.ev # "call")
    IN  [k \in 1..Len(host) |-> [ev |-> host[k].ev, by |-> t]]

\* Promise.all fulfilled: the continuation of runAll runs lines 31-33 without
\* suspending. An exception thrown by a callback ends the invocation there.
RunAllContinue ==
    \E t \in 1..Len(tasks) :
        LET x == RunAllBody(notifyFns, PromiseAllValues(tasks[t])) IN
        /\ last = Idle
        /\ tasks[t].pc = "await"
        /\ AllFulfilled(tasks[t].cells)
        /\ tasks' = [tasks EXCEPT ![t].pc = IF x.threw THEN "threw" ELSE "flushing",
                                  ![t].events = x.events]
        /\ hostCalls' = hostCalls \o HostCallsOf(t, x.events)
        /\ last' = Op("runAllContinue", <<t>>, Null, x)
        /\ UNCHANGED <<notifyFns, readme>>

\* Promise.all rejected: the await of line 30 throws, runAll's promise rejects.
RunAllRejected ==
    \E t \in 1..Len(tasks) :
        /\ last = Idle
        /\ tasks[t].pc = "await"
        /\ AnyRejected(tasks[t].cells)
        /\ tasks' = [tasks EXCEPT ![t].pc = "rejected"]
        /\ last' = Op("runAllRejected", <<t>>, Null, NoEffects)
        /\ UNCHANGED <<notifyFns, hostCalls, readme>>

\* The promise returned by resumeNotification settles: runAll's caller resumes.
HostFlushed ==
    \E t \in 1..Len(tasks) :
        /\ last = Idle
        /\ tasks[t].pc = "flushing"
        /\ tasks' = [tasks EXCEPT ![t].pc = "done"]
        /\ last' = Op("hostFlushed", <<t>>, Null, NoEffects)
        /\ UNCHANGED <<notifyFns, hostCalls, readme>>

\* ------------------------------------------------------------- concurrent runAll
CreateC == CreateUpTo(MaxConcurrentNotifiers)

\* Notifier.runAll(cells), started while earlier invocations may still be
\* suspended at their await or waiting for the host's flush.
RunAllC ==
    \E cells \in SeqsUpTo(InputCells, MaxConcurrentCells) :
        /\ last = Idle
        /\ Len(tasks) < MaxConcurrent
        /\ tasks' = Append(tasks, NewTask(cells, "runAll"))
        /\ last' = Op("runAll", <<>>, Len(tasks) + 1, NoEffects)
        /\ UNCHANGED <<notifyFns, hostCalls, readme>>

\* ------------------------------------------------------------- static run
\* Where Notifier.run(cell) stands once it has run as far as it can without
\* suspending, from its call (a plain or pending cell) or from the await of
\* line 12 (a settled cell): returned, suspended on the cell, failed, or inside
\* the instance's run(), which is runAll([instance]) at its await.
\* A static run that hands the resolved value to runAll without testing it.
StaticRunPcNoLazyTest(cell) ==
    IF ~cell.deferred /\ ~Truthy(cell.val) THEN "done"
    ELSE IF cell.state = "pending" THEN "lazy"
    ELSE IF cell.state = "rejected" THEN "rejected"
    ELSE "await"

StaticRunPc(cell) ==
    IF ~cell.deferred /\ ~Truthy(cell.val) THEN "done"
    ELSE IF cell.state = "pending" THEN "lazy"
    ELSE IF cell.state = "rejected" THEN "rejected"
    ELSE IF Truthy(cell.val) THEN "await"
    ELSE "done"

\* Notifier.run(cell), lines 8-17 up to the first suspension.
StaticRun ==
    \E cell \in InputCells :
        /\ last = Idle
        /\ Len(tasks) < MaxTasks
        /\ tasks' = Append(tasks, [NewTask(<<cell>>, "Notifier.run")
                                       EXCEPT !.pc = StaticRunPc(cell)])
        /\ last' = Op("Notifier.run", <<>>, Len(tasks) + 1, NoEffects)
        /\ UNCHANGED <<notifyFns, hostCalls, readme>>

\* The await of line 12 ends: the cell's promise has settled.
StaticRunResumed ==
    \E t \in 1..Len(tasks) :
        /\ last = Idle
        /\ tasks[t].pc = "lazy"
        /\ tasks[t].cells[1].state # "pending"
        /\ tasks' = [tasks EXCEPT ![t].pc = StaticRunPc(tasks[t].cells[1])]
        /\ last' = Op("Notifier.run resumed", <<t>>, Null, NoEffects)
        /\ UNCHANGED <<notifyFns, hostCalls, readme>>

\* ------------------------------------------------------------- gen_doc runs
\* A readme.md and the rows of package.json, before the script's first run.
InitGenDoc ==
    /\ notifyFns = <<>>
    /\ tasks = <<>>
    /\ hostCalls = <<>>
    /\ last = Idle
    /\ \E markdown \in Readmes, rows \in SeqsUpTo(Rows, MaxRows) :
           readme = [markdown |-> markdown, rows |-> rows, runs |-> 0, writes |-> 0,
                     previous |-> markdown]

\* One run of the script: main() attaches the rows under the heading.
GenDoc ==
    LET r == attach(HeadLevel, AttachTitle, readme.markdown, readme.rows) IN
    /\ readme.runs < MaxGenDocRuns
    /\ readme' = [readme EXCEPT !.markdown = r.markdown,
                                !.previous = readme.markdown,
                                !.runs = @ + 1,
                                !.writes = IF r.written THEN @ + 1 ELSE @]
    /\ UNCHANGED <<notifyFns, tasks, hostCalls, last>>

\* ------------------------------------------------------------- specifications
\* The synchronous API: construction, composition, direct dispatch.
NextSync ==
    \/ Create
    \/ Concat
    \/ Combine
    \/ CombineNotify
    \/ ConcatChain
    \/ ConcatNotify
    \/ Notify
    \/ NotifyAll
    \/ Return

SpecSync == Init /\ [][NextSync]_vars

\* Batched dispatch: runAll invocations over a heap built by create and concat.
NextRun ==
    \/ CreateR
    \/ ConcatR
    \/ RunAll
    \/ Run
    \/ Fulfil
    \/ Reject
    \/ RunAllContinue
    \/ RunAllRejected
    \/ HostFlushed
    \/ Return

SpecRun == Init /\ [][NextRun]_vars

\* Several runAll invocations in flight in the one cooperative context.
NextConcurrent ==
    \/ CreateC
    \/ RunAllC
    \/ Fulfil
    \/ Reject
    \/ RunAllContinue
    \/ RunAllRejected
    \/ HostFlushed
    \/ Return

SpecConcurrent == Init /\ [][NextConcurrent]_vars

\* Notifier.run(cell) over a heap built by create and concat.
NextStaticRun ==
    \/ CreateR
    \/ ConcatR
    \/ StaticRun
    \/ Fulfil
    \/ Reject
    \/ StaticRunResumed
    \/ RunAllContinue
    \/ HostFlushed
    \/ Return

SpecStaticRun == Init /\ [][NextStaticRun]_vars

\* The documentation generator, run again and again on the same file.
NextGenDoc == GenDoc

SpecGenDoc == InitGenDoc /\ [][NextGenDoc]_vars

\* The event loop runs every job that is ready: a returning job, a settled
\* Promise.all's continuation, the settlement of the host's flush.
SpecRunFair ==
    /\ SpecRun
    /\ WF_vars(Return)
    /\ WF_vars(RunAllContinue)
    /\ WF_vars(RunAllRejected)
    /\ WF_vars(HostFlushed)

\* ------------------------------------------------------------- properties
TaskIds == 1..Len(tasks)
HostCallsBy(t) == SelectSeq(hostCalls, LAMBDA h : h.by = t)
Count(events, name) == Len(SelectSeq(events, LAMBDA e : e.ev = name))
CallsIn(events) == SelectSeq(events, LAMBDA e : e.ev = "call")

\* The cells of an invocation were all given or fulfilled as Notifiers/absent.
ResolvedValues(t) == [i \in 1..Len(tasks[t].cells) |-> tasks[t].cells[i].val]

\* The callbacks of the present entries of vals over heap, slot by slot, each
\* Notifier's in sequence order.
RECURSIVE CallsOfSlots(_, _, _)
CallsOfSlots(heap, vals, i) ==
    IF i > Len(vals) THEN <<>>
    ELSE (IF vals[i] \in 1..Len(heap)
          THEN [k \in 1..Len(heap[vals[i]]) |-> CallEvent(heap[vals[i]][k], i)]
          ELSE <<>>) \o CallsOfSlots(heap, vals, i + 1)

\* C1: a completed runAll (or run) invocation over a non-empty list issued
\* exactly one pauseNotification and exactly one resumeNotification, the pause
\* first, however many Notifiers the list holds.
C1_OnePauseOneResume ==
    \A t \in TaskIds :
        (tasks[t].pc = "done" /\ Len(tasks[t].cells) >= 1) =>
            /\ HostCallsBy(t) = <<[ev |-> "pause", by |-> t], [ev |-> "resume", by |-> t]>>
            /\ Count(tasks[t].events, "pause") = 1
            /\ Count(tasks[t].events, "resume") = 1

\* A completed runAll over two present Notifiers, one of them deferred, whose
\* callbacks all ran.
C1_Witness ==
    \E t \in TaskIds :
        /\ tasks[t].pc = "done"
        /\ tasks[t].via = "runAll"
        /\ Len(tasks[t].cells) = 2
        /\ tasks[t].cells[1].deferred
        /\ Truthy(tasks[t].cells[1].val) /\ Truthy(tasks[t].cells[2].val)
        /\ tasks[t].cells[1].val # tasks[t].cells[2].val
        /\ Len(CallsIn(tasks[t].events)) >= 2
        /\ Len(HostCallsBy(t)) = 2

\* The index of the first call of a throwing callback in calls, 0 if none.
FirstThrow(calls) ==
    IF \E k \in 1..Len(calls) : Throws(calls[k].fn)
    THEN CHOOSE k \in 1..Len(calls) :
             Throws(calls[k].fn) /\ \A j \in 1..(k - 1) : ~Throws(calls[j].fn)
    ELSE 0

UpToFirstThrow(calls) ==
    IF FirstThrow(calls) = 0 THEN calls ELSE SubSeq(calls, 1, FirstThrow(calls))

\* What the continuation on the stack was expected to invoke: the callbacks of
\* its resolved cells over the heap it started from.
ExpectedCalls == CallsOfSlots(last.pre, ResolvedValues(last.args[1]), 1)

\* C2 as stated: the continuation of a runAll whose cells all resolved invokes
\* every callback of every present Notifier between its pause and its resume,
\* in input order, then in sequence order within each Notifier.
C2_AllCallbacksInWindow ==
    last.op = "runAllContinue" =>
        last.events = <<HostEvent("pause")>> \o ExpectedCalls \o <<HostEvent("resume")>>

\* C2 amended: the callbacks are invoked after the pause, in input order then
\* sequence order, up to and including the first one that throws; when none
\* throws all of them are invoked, and all before the resume.
C2_CallbacksInOrderUpToThrow ==
    last.op = "runAllContinue" =>
        /\ Head(last.events) = HostEvent("pause")
        /\ CallsIn(last.events) = UpToFirstThrow(ExpectedCalls)
        /\ SubSeq(last.events, 2, 1 + Len(CallsIn(last.events))) = CallsIn(last.events)
        /\ FirstThrow(ExpectedCalls) = 0 =>
               last.events =
                   <<HostEvent("pause")>> \o ExpectedCalls \o <<HostEvent("resume")>>

\* Two deferred cells fulfilled in reverse order with distinct Notifiers, the
\* first holding two callbacks: the callbacks ran in input order.
C2_Witness ==
    /\ last.op = "runAllContinue"
    /\ LET task == tasks[last.args[1]] IN
       /\ task.order = <<2, 1>>
       /\ task.cells[1].deferred /\ task.cells[2].deferred
       /\ Truthy(task.cells[1].val) /\ Truthy(task.cells[2].val)
       /\ task.cells[1].val # task.cells[2].val
       /\ Len(last.pre[task.cells[1].val]) = 2
    /\ ~last.threw
    /\ Len(last.events) = 5
    /\ last.events[2].slot = 1 /\ last.events[3].slot = 1 /\ last.events[4].slot = 2

\* C3 as stated: when a callback throws inside the window, resumeNotification
\* has been called exactly once by the time the caller sees the exception.
C3_ResumeAfterThrow ==
    \A t \in TaskIds :
        tasks[t].pc = "threw" =>
            /\ Count(tasks[t].events, "resume") = 1
            /\ Len(SelectSeq(HostCallsBy(t), LAMBDA h : h.ev = "resume")) = 1

\* C4: an invocation one of whose deferred cells was rejected never leaves the
\* await other than by failing, makes no host call and invokes no callback,
\* whatever its other cells resolved to; and the failure reaches its caller.
C4_NoHostCallOnRejection ==
    \A t \in TaskIds :
        AnyRejected(tasks[t].cells) =>
            /\ tasks[t].pc \in {"await", "rejected"}
            /\ tasks[t].events = <<>>
            /\ HostCallsBy(t) = <<>>

C4_RejectionReachesCaller ==
    /\ []C4_NoHostCallOnRejection
    /\ \A t \in 1..MaxTasks :
           (t <= Len(tasks) /\ AnyRejected(tasks[t].cells)) ~>
               (t <= Len(tasks) /\ tasks[t].pc = "rejected")

\* A failed invocation whose other cell was fulfilled with a Notifier.
C4_Witness ==
    \E t \in TaskIds :
        /\ tasks[t].pc = "rejected"
        /\ Len(tasks[t].cells) = 2
        /\ tasks[t].cells[1].state = "rejected"
        /\ tasks[t].cells[2].deferred
        /\ tasks[t].cells[2].state = "fulfilled"
        /\ Truthy(tasks[t].cells[2].val)
        /\ hostCalls = <<>>

\* A deferred cell of the continuation on the stack was fulfilled with an
\* absent value.
AbsentDeferredSlots ==
    {i \in 1..Len(tasks[last.args[1]].cells) :
        /\ tasks[last.args[1]].cells[i].deferred
        /\ tasks[last.args[1]].cells[i].val \in {Null, Undefined}}

\* C5 as stated: with a deferred cell resolved to an absent value, no callback
\* is invoked for that slot and every callback of the other present slots is
\* invoked inside the invocation's single pause/resume window.
C5_AbsentSlotSkipped ==
    (last.op = "runAllContinue" /\ AbsentDeferredSlots # {}) =>
        /\ \A k \in 1..Len(last.events) : last.events[k].slot \notin AbsentDeferredSlots
        /\ last.events =
               <<HostEvent("pause")>> \o ExpectedCalls \o <<HostEvent("resume")>>

\* C5 amended: no callback is invoked for that slot; the callbacks of the
\* other present slots are invoked after the invocation's single pause, up to
\* and including the first one that throws, and when none throws all of them
\* are invoked before its single resume.
C5_AbsentSlotSkippedUpToThrow ==
    (last.op = "runAllContinue" /\ AbsentDeferredSlots # {}) =>
        /\ \A k \in 1..Len(last.events) : last.events[k].slot \notin AbsentDeferredSlots
        /\ Count(last.events, "pause") = 1
        /\ Head(last.events) = HostEvent("pause")
        /\ CallsIn(last.events) = UpToFirstThrow(ExpectedCalls)
        /\ FirstThrow(ExpectedCalls) = 0 =>
               /\ Count(last.events, "resume") = 1
               /\ last.events[Len(last.events)] = HostEvent("resume")

\* The first cell was deferred and fulfilled with null, the second is a
\* Notifier whose callbacks ran inside the window.
C5_Witness ==
    /\ last.op = "runAllContinue"
    /\ LET task == tasks[last.args[1]] IN
       /\ Len(task.cells) = 2
       /\ task.cells[1].deferred /\ task.cells[1].val = Null
       /\ Truthy(task.cells[2].val)
    /\ Len(last.events) >= 3
    /\ last.events[2].slot = 2
    /\ last.events[Len(last.events)] = HostEvent("resume")

\* ---- the synchronous API
WithoutAbsent(cells) == SelectSeq(cells, LAMBDA c : c \notin {Null, Undefined})

\* The invocations of the callbacks fns by a direct notify().
DirectCalls(fns) == [k \in 1..Len(fns) |-> CallEvent(fns[k], 0)]

\* combine(<<a, b, c>>).notify() is on the stack, a, b and c being Notifiers.
ThreeCombinedAndNotified ==
    /\ last.op = "combine.notify"
    /\ Len(last.args) = 3
    /\ \A i \in 1..3 : last.args[i] \in 1..Len(last.pre)

\* C6 as stated: combine([a,b,c]).notify() invokes a's callbacks, then b's,
\* then c's, each exactly once.
C6_CombinedOrder ==
    ThreeCombinedAndNotified =>
        last.events = DirectCalls(last.pre[last.args[1]] \o last.pre[last.args[2]]
                                      \o last.pre[last.args[3]])

\* C6 amended: for pairwise distinct a, b, c the callbacks of a, then b, then
\* c are invoked in that order, each once, up to and including the first one
\* that throws (all of them when none throws).
C6_CombinedOrderDistinctUpToThrow ==
    (/\ ThreeCombinedAndNotified
     /\ Cardinality({last.args[i] : i \in 1..3}) = 3) =>
        last.events =
            UpToFirstThrow(DirectCalls(last.pre[last.args[1]] \o last.pre[last.args[2]]
                                           \o last.pre[last.args[3]]))

\* Three distinct Notifiers, none throwing, combined and triggered: three
\* invocations in list order.
C6_Witness ==
    /\ ThreeCombinedAndNotified
    /\ Cardinality({last.args[i] : i \in 1..3}) = 3
    /\ ~last.threw
    /\ Len(last.events) = 3
    /\ \A i \in 1..3 : last.events[i].fn = last.pre[last.args[i]][1]
    /\ Cardinality({last.events[i].fn : i \in 1..3}) = 3

\* C7: combine(cells) leaves the same heap and returns the same Notifier, with
\* the same callback sequence, as combine of cells without its null/undefined
\* entries, from the same heap.
C7_CombineSkipsAbsent ==
    last.op = "combine" =>
        LET r == combine(last.pre, WithoutAbsent(last.args)) IN
        /\ last.ret \in Notifiers
        /\ r.ret = last.ret
        /\ r.heap = notifyFns
        /\ r.heap[r.ret] = notifyFns[last.ret]

\* combine of a list with absent entries around two distinct Notifiers.
C7_Witness ==
    /\ last.op = "combine"
    /\ Len(last.args) = 3
    /\ \E i \in 1..3 : last.args[i] \in {Null, Undefined}
    /\ Cardinality({last.args[i] : i \in 1..3} \cap (1..Len(last.pre))) = 2
    /\ Len(notifyFns[last.ret]) = Len(last.pre[last.ret]) + 1

\* C8: combine of a list without any present entry returns a Notifier, never
\* an absent value, that no earlier call returned or constructed, holding the
\* single empty callback; triggering it invokes that callback alone (no other
\* callback, no host call), without an exception, and leaves every Notifier
\* as it was.
C8_EmptyCombineIsFreshNoop ==
    (last.op \in {"combine", "combine.notify"} /\ WithoutAbsent(last.args) = <<>>) =>
        /\ Truthy(last.ret)
        /\ last.ret \in Notifiers
        /\ last.ret \notin 1..Len(last.pre)
        /\ notifyFns = Append(last.pre, <<Noop>>)
        /\ last.op = "combine" => last.events = <<>>
        /\ last.op = "combine.notify" =>
               /\ last.events = <<CallEvent(Noop, 0)>>
               /\ ~last.threw

\* A second combine of a non-empty list of absent entries, while the no-op
\* Notifier of an earlier one exists, and its result triggered.
C8_Witness ==
    /\ last.op = "combine.notify"
    /\ Len(last.args) >= 2
    /\ WithoutAbsent(last.args) = <<>>
    /\ \E n \in 1..Len(last.pre) : last.pre[n] = <<Noop>> /\ n # last.ret
    /\ \E n \in 1..Len(last.pre) : last.pre[n] # <<Noop>>
    /\ last.ret = Len(last.pre) + 1
    /\ last.events = <<CallEvent(Noop, 0)>>

\* C9: combine of a list with exactly one present entry returns that very
\* instance and changes no Notifier's callback sequence.
C9_SingleEntryReturned ==
    (last.op = "combine" /\ Len(WithoutAbsent(last.args)) = 1) =>
        /\ last.ret = WithoutAbsent(last.args)[1]
        /\ notifyFns = last.pre

\* combine of one Notifier with absent entries on both sides.
C9_Witness ==
    /\ last.op = "combine"
    /\ Len(last.args) = 3
    /\ last.args[1] = Null /\ last.args[3] = Undefined
    /\ last.args[2] \in Notifiers
    /\ last.ret = last.args[2]
    /\ Len(notifyFns[last.ret]) >= 2

\* C10: create, concat (chained or not) and combine produce no event, neither
\* a callback invocation nor a host call: a step that produces one is a notify,
\* a notifyAll or the triggering of a combine's or a chained concat's result.
C10_ConstructionInvokesNothing ==
    /\ last.op \in {"create", "concat", "combine", "(concat).concat", "concat(concat)"} =>
           /\ last.events = <<>>
           /\ ~last.threw
    /\ last.events # <<>> =>
           last.op \in {"notify", "notifyAll", "combine.notify",
                        "(concat).concat.notify", "concat(concat).notify"}

\* A combine that merged two Notifiers holding callbacks, one of which would
\* throw if invoked, without invoking any.
C10_Witness ==
    /\ last.op = "combine"
    /\ Len(WithoutAbsent(last.args)) >= 2
    /\ notifyFns # last.pre
    /\ \E k \in 1..Len(notifyFns[last.ret]) : Throws(notifyFns[last.ret][k])
    /\ last.events = <<>>

\* ---- callback sequences
\* C11: every existing Notifier holds at least one callback, and no step
\* removes a Notifier or shortens a Notifier's callback sequence.
C11_NeverEmptyNeverShortened ==
    /\ [](\A n \in Notifiers : Len(notifyFns[n]) >= 1)
    /\ [][/\ Len(notifyFns') >= Len(notifyFns)
          /\ \A n \in Notifiers : Len(notifyFns'[n]) >= Len(notifyFns[n])]_vars

\* A concat or combine of several entries has just grown a Notifier to three
\* callbacks or more, over one that already held two, while another Notifier
\* still holds the single callback it was constructed with.
C11_Witness ==
    /\ last.op \in {"concat", "combine"}
    /\ last.ret \in 1..Len(last.pre)
    /\ Len(last.pre[last.ret]) >= 2
    /\ Len(notifyFns[last.ret]) > Len(last.pre[last.ret])
    /\ \E n \in Notifiers : Len(notifyFns[n]) = 1

\* A chained concat of three operands is on the stack, triggered or not.
ChainOps ==
    {"(concat).concat", "concat(concat)", "(concat).concat.notify", "concat(concat).notify"}

ChainOfDistinct ==
    /\ last.op \in ChainOps
    /\ Cardinality({last.args[i] : i \in 1..3}) = 3

\* C12: for distinct Notifiers a, b, c holding A, B, C, (a.concat(b)).concat(c)
\* and a.concat(b.concat(c)) both return a holding A, then B, then C; triggering
\* the result invokes the callbacks in that order (as far as the first one that
\* throws).
C12_ConcatAssociative ==
    ChainOfDistinct =>
        LET ABC == last.pre[last.args[1]] \o last.pre[last.args[2]] \o last.pre[last.args[3]]
        IN  /\ last.ret = last.args[1]
            /\ notifyFns[last.ret] = ABC
            /\ last.op \in {"(concat).concat.notify", "concat(concat).notify"} =>
                   last.events = UpToFirstThrow(DirectCalls(ABC))

\* a.concat(b.concat(c)) over three distinct Notifiers, none throwing, was
\* triggered and invoked three distinct callbacks, a's first and c's last.
C12_Witness ==
    /\ ChainOfDistinct
    /\ last.op = "concat(concat).notify"
    /\ ~last.threw
    /\ Len(last.events) = 3
    /\ last.events[1].fn = last.pre[last.args[1]][1]
    /\ last.events[3].fn = last.pre[last.args[3]][1]
    /\ Cardinality({last.events[i].fn : i \in 1..3}) = 3

\* ---- batched dispatch, continued
\* Every cell of invocation t is resolved (or was given) as an absent value;
\* the empty list included.
NothingToNotify(t) ==
    /\ AllFulfilled(tasks[t].cells)
    /\ \A i \in 1..Len(tasks[t].cells) : ~Truthy(tasks[t].cells[i].val)

PauseThenResume(t) == <<[ev |-> "pause", by |-> t], [ev |-> "resume", by |-> t]>>

C13_EmptyBatchWindow ==
    \A t \in TaskIds :
        NothingToNotify(t) =>
            /\ tasks[t].pc \in {"await", "flushing", "done"}
            /\ CallsIn(tasks[t].events) = <<>>
            /\ tasks[t].pc = "await" => HostCallsBy(t) = <<>>
            /\ tasks[t].pc \in {"flushing", "done"} =>
                   /\ tasks[t].events = <<HostEvent("pause"), HostEvent("resume")>>
                   /\ HostCallsBy(t) = PauseThenResume(t)

\* C13: a runAll over an empty list, or over cells that are all absent, invokes
\* no callback and issues exactly one pauseNotification followed by exactly one
\* resumeNotification; it never fails, and it completes.
C13_EmptyBatchCompletes ==
    /\ []C13_EmptyBatchWindow
    /\ \A t \in 1..MaxTasks :
           (t <= Len(tasks) /\ NothingToNotify(t)) ~>
               (t <= Len(tasks) /\ tasks[t].pc = "done")

\* runAll([]) completed while Notifiers with callbacks exist: the host saw one
\* pause and one resume.
C13_Witness ==
    \E t \in TaskIds :
        /\ tasks[t].via = "runAll"
        /\ tasks[t].cells = <<>>
        /\ tasks[t].pc = "done"
        /\ Len(notifyFns) >= 1
        /\ hostCalls = PauseThenResume(t)

\* ---- frame of concat and combine
\* C14: a.concat(b) returns a, constructs no instance, leaves a holding its
\* previous callbacks followed by b's, and leaves every Notifier other than a
\* (b included when b is not a) as it was; combine of two or more present
\* entries returns the first present entry, constructs no instance and lengthens
\* that entry's sequence.
C14_ConcatMutatesReceiverOnly ==
    /\ last.op = "concat" =>
           /\ last.ret = last.args[1]
           /\ Len(notifyFns) = Len(last.pre)
           /\ notifyFns[last.args[1]] = last.pre[last.args[1]] \o last.pre[last.args[2]]
           /\ \A n \in Notifiers : n # last.args[1] => notifyFns[n] = last.pre[n]
    /\ (last.op = "combine" /\ Len(WithoutAbsent(last.args)) >= 2) =>
           /\ last.ret = WithoutAbsent(last.args)[1]
           /\ Len(notifyFns) = Len(last.pre)
           /\ Len(notifyFns[last.ret]) > Len(last.pre[last.ret])
           /\ SubSeq(notifyFns[last.ret], 1, Len(last.pre[last.ret])) = last.pre[last.ret]

\* a.concat(b) with b another instance that holds two callbacks, while a third
\* Notifier exists: a grew by two.
C14_Witness ==
    /\ last.op = "concat"
    /\ last.args[1] # last.args[2]
    /\ Len(last.pre) = 3
    /\ Len(last.pre[last.args[2]]) = 2
    /\ Len(notifyFns[last.ret]) = Len(last.pre[last.ret]) + 2

\* ---- duplicate execution
\* Each combine of an empty list constructs an empty closure of its own, which
\* the model does not tell apart: repetition is counted over the callbacks
\* given to create.
DupFree(fns) ==
    \A i \in 1..Len(fns), j \in 1..Len(fns) : (i # j /\ fns[i] # Noop) => fns[i] # fns[j]
DupFreeHeap(heap) == \A n \in 1..Len(heap) : DupFree(heap[n])
Callbacks(fns) == {fns[k] : k \in 1..Len(fns)} \ {Noop}
FnsOf(events) == [k \in 1..Len(events) |-> events[k].fn]

\* The operands ns of a merge are distinct instances no two of which hold a
\* callback in common.
DisjointOperands(heap, ns) ==
    \A i \in 1..Len(ns), j \in 1..Len(ns) :
        i # j => /\ ns[i] # ns[j]
                 /\ Callbacks(heap[ns[i]]) \cap Callbacks(heap[ns[j]]) = {}

TriggerOps == {"notify", "combine.notify", "(concat).concat.notify", "concat(concat).notify"}
MergeOps == {"concat", "combine", "(concat).concat", "concat(concat)"}
Triggered == IF last.op = "notify" THEN last.args[1] ELSE last.ret

StillPending(t) == \E i \in 1..Len(tasks[t].cells) : tasks[t].cells[i].state = "pending"

\* C16: while a deferred cell of a runAll invocation is unresolved, the
\* invocation has made no host call and invoked no callback, and it is still
\* suspended at its await (or has failed there on another cell's rejection);
\* the step that issues its pause is taken with every cell resolved.
C16_NoWindowWhilePending ==
    /\ \A t \in TaskIds :
           StillPending(t) =>
               /\ tasks[t].events = <<>>
               /\ HostCallsBy(t) = <<>>
               /\ tasks[t].pc \in {"await", "rejected"}
    /\ last.op = "runAllContinue" => ~StillPending(last.args[1])

\* Of two deferred cells the second has just been fulfilled with a Notifier
\* and the first is still unresolved: the host has seen nothing.
C16_Witness ==
    /\ last.op = "fulfil"
    /\ last.args = <<1, 2>>
    /\ Len(tasks[1].cells) = 2
    /\ tasks[1].cells[1].state = "pending"
    /\ tasks[1].cells[2].deferred
    /\ Truthy(tasks[1].cells[2].val)
    /\ tasks[1].pc = "await"
    /\ hostCalls = <<>>

\* ---- concurrent invocations
\* No callback has thrown so far.
NoThrowSoFar == \A t \in TaskIds : tasks[t].pc # "threw"

\* The host's record is a sequence of pause/resume pairs, each pair issued by
\* one invocation.
StrictlyAlternating(h) ==
    \A k \in 1..Len(h) :
        IF k % 2 = 1 THEN h[k].ev = "pause"
        ELSE h[k].ev = "resume" /\ h[k].by = h[k - 1].by

\* C17: with runAll invocations in flight together, their cells resolving in
\* any interleaving, and no callback having thrown, the host has seen pause and
\* resume strictly alternating, one pair per invocation that passed its await;
\* such an invocation ran its own cells' callbacks, all of them and no others,
\* between its own pause and its own resume.
C17_WindowsNeverOverlap ==
    NoThrowSoFar =>
        /\ StrictlyAlternating(hostCalls)
        /\ Len(hostCalls) % 2 = 0
        /\ \A t \in TaskIds :
               IF tasks[t].pc \in {"flushing", "done"}
               THEN /\ HostCallsBy(t) = PauseThenResume(t)
                    /\ tasks[t].events =
                           <<HostEvent("pause")>>
                               \o CallsOfSlots(notifyFns, ResolvedValues(t), 1)
                               \o <<HostEvent("resume")>>
               ELSE HostCallsBy(t) = <<>> /\ tasks[t].events = <<>>

\* Two invocations were started before either passed its await; the one
\* started second resolved first, and both ran callbacks in windows of their
\* own.
C17_Witness ==
    /\ Len(tasks) = 2
    /\ Len(tasks[1].cells) = 1 /\ Len(tasks[2].cells) = 1
    /\ tasks[1].cells[1].deferred /\ tasks[2].cells[1].deferred
    /\ hostCalls = PauseThenResume(2) \o PauseThenResume(1)
    /\ Len(CallsIn(tasks[1].events)) >= 1
    /\ Len(CallsIn(tasks[2].events)) >= 1
    /\ tasks[2].pc = "flushing"

\* ---- static run
\* The static run t has nothing to run: its cell is absent or resolved absent.
CellAbsent(t) ==
    /\ tasks[t].cells[1].state = "fulfilled"
    /\ ~Truthy(tasks[t].cells[1].val)

\* No host call and no callback for a cell that is absent, resolves to an
\* absent value, is still unresolved or was rejected; such a run never enters
\* runAll.
C18_NothingForAbsentCell ==
    \A t \in TaskIds :
        (tasks[t].via = "Notifier.run" /\ (CellAbsent(t) \/ tasks[t].cells[1].state # "fulfilled")) =>
            /\ tasks[t].events = <<>>
            /\ HostCallsBy(t) = <<>>
            /\ tasks[t].pc \in {"lazy", "done", "rejected"}

\* C18 as stated: Notifier.run(cell) does nothing for an absent cell, and for a
\* cell that is or resolves to a Notifier it issues one pause, invokes that
\* Notifier's callbacks, and issues one resume.
C18_StaticRunIsRun ==
    /\ C18_NothingForAbsentCell
    /\ (last.op = "runAllContinue" /\ tasks[last.args[1]].via = "Notifier.run") =>
           last.events = <<HostEvent("pause")>> \o ExpectedCalls \o <<HostEvent("resume")>>

\* C18 amended: nothing for an absent cell; for a cell that is or resolves to a
\* Notifier, one pause, then that Notifier's callbacks in sequence order up to
\* and including the first one that throws, and, when none throws, all of them
\* followed by one resume.
C18_StaticRunIsRunUpToThrow ==
    /\ C18_NothingForAbsentCell
    /\ (last.op = "runAllContinue" /\ tasks[last.args[1]].via = "Notifier.run") =>
           /\ Truthy(tasks[last.args[1]].cells[1].val)
           /\ Count(last.events, "pause") = 1
           /\ Head(last.events) = HostEvent("pause")
           /\ CallsIn(last.events) = UpToFirstThrow(ExpectedCalls)
           /\ SubSeq(last.events, 2, 1 + Len(CallsIn(last.events))) = CallsIn(last.events)
           /\ FirstThrow(ExpectedCalls) = 0 =>
                  last.events =
                      <<HostEvent("pause")>> \o ExpectedCalls \o <<HostEvent("resume")>>

\* A static run whose deferred cell resolved to a Notifier holding two
\* callbacks ran both inside one window.
C18_Witness ==
    /\ last.op = "runAllContinue"
    /\ tasks[last.args[1]].via = "Notifier.run"
    /\ tasks[last.args[1]].cells[1].deferred
    /\ Len(last.events) = 4
    /\ last.events[4] = HostEvent("resume")
    /\ hostCalls = PauseThenResume(last.args[1])

\* ---- gen_doc
HasTitle(markdown) ==
    \E k \in 1..Len(markdown) : TitleRegExp(HeadLevel, AttachTitle, Str(markdown[k]))

\* C19 as stated: a run of attach after the first leaves the file's lines as
\* the run before left them; a run on a file without the target heading writes
\* nothing and leaves the file as it was.
C19_AttachIdempotent ==
    /\ readme.runs >= 2 => readme.markdown = readme.previous
    /\ ~HasTitle(readme.previous) =>
           /\ readme.writes = 0
           /\ readme.markdown = readme.previous
====
